---- MODULE Spec2Model ----
(***************************************************************************)
(* State management and text analysis of the communication-coach skill     *)
(* (skills/rjmoggach/communication-coach/scripts/manage_state.py and       *)
(* analyze_comm.py).                                                       *)
(*                                                                         *)
(* The persisted objects are the state file state.json and the monthly     *)
(* history logs history/YYYY-MM.json.  Every command of main() is one      *)
(* invocation of the script.  The sequential specifications run one        *)
(* invocation at a time, each as a single action; SpecConc interleaves     *)
(* invocations at the boundaries of their file operations.                 *)
(*                                                                         *)
(* Scores are floats in the code.  The model writes a score as an integer  *)
(* number of quarter points (16 is 4.0, 26 is 6.5, -1 is -0.25), values a   *)
(* binary float holds exactly, so score - baseline and improvement * 2 are *)
(* exact and int(improvement * 2) is (improvement * 2) \div 4 on quarters. *)
(***************************************************************************)
EXTENDS Integers, Sequences, FiniteSets, TLC

VARIABLES
    file,       \* state.json: absent, a complete document, or a partly written one
    history,    \* history/<month>.json for every month: absent or a list of entries
    clock,      \* datetime.now()
    pc,         \* per invocation: where it stands between its file operations
    args,       \* per invocation: the parsed command line of its latest command
    state,      \* per invocation: the document load_state() handed to it
    result      \* per invocation: what its latest command returned or printed

vars == <<file, history, clock, pc, args, state, result>>

----------------------------------------------------------------------------
(* Bounds of the model *)

MaxClock == 1          \* Spec: the clock runs over 0..MaxClock
MaxArchClock == 2      \* SpecArchive: the clock runs over 0..MaxArchClock
TicksPerMonth == 2     \* clock values per calendar month
MaxUpdates == 7        \* Spec: update calls that reach the state file
MaxFixedCalls == 16    \* SpecFixed: update calls of the one caller
MaxArchives == 2       \* SpecArchive: history entries over all logs
MaxArchUpdates == 2    \* SpecArchive: update calls that reach the state file
MaxMixedCalls == 16    \* SpecMixed: update calls of one dimension

Procs == {1, 2, 3}
Shell == 1             \* the invocation slot the sequential specifications use

\* Python's None / an absent optional value, and a present one
None == <<>>
Some(v) == <<v>>

\* score inputs, in quarter points: -0.25, 4.0, 6.5
Scores == {-1, 16, 26}

DimensionNames ==
    <<"clarity", "vocal_control", "presence", "persuasion", "boundary_setting">>
Dimensions == {DimensionNames[i] : i \in 1..Len(DimensionNames)}

\* --dimension values the model passes: two of the five names and an unknown one
DimensionArgs == {"clarity", "presence", "confidence"}

Modalities ==
    {"email-formal", "email-casual", "slack", "sms", "presentation",
     "conversation", "voicemail"}

\* --modality values Spec passes: thresholds 5 and 15, and an unrecognized one
ModalityArgs == {"presentation", "slack", "voicemail"}

Months == 0..(MaxArchClock \div TicksPerMonth)
Month(now) == now \div TicksPerMonth

----------------------------------------------------------------------------
(* Files *)

Absent == [kind |-> "absent"]
Partial == [kind |-> "partial"]
Doc(d) == [kind |-> "doc", doc |-> d]

----------------------------------------------------------------------------
(* load_state, save_state *)

\* mutant of lines 29-38: a dimension starts with a baseline of 0
DefaultStateZeroBaseline(now) ==
    [level |-> 1,
     points |-> 0,
     dimensions |->
        [d \in Dimensions |-> [current |-> 0, baseline |-> Some(0), samples |-> 0]],
     active_challenges |-> <<>>,
     last_updated |-> now]

\* lines 28-41
DefaultState(now) ==
    [level |-> 1,
     points |-> 0,
     dimensions |->
        [d \in Dimensions |-> [current |-> 0, baseline |-> None, samples |-> 0]],
     active_challenges |-> <<>>,
     last_updated |-> now]

\* json.load raises on a file that holds no complete document
LoadRaises(f) == f.kind = "partial"

LoadState(f, now) ==
    IF f.kind = "absent" THEN DefaultState(now) ELSE f.doc

\* the document save_state dumps
SaveState(st, now) == [st EXCEPT !.last_updated = now]

----------------------------------------------------------------------------
(* update_dimension *)

\* mutant of line 79: presentation asks for 3 samples
BaselineThresholdLow(modality) ==
    CASE modality = "email-formal" -> 10
      [] modality = "email-casual" -> 10
      [] modality = "slack" -> 15
      [] modality = "sms" -> 15
      [] modality = "presentation" -> 3
      [] modality = "conversation" -> 10
      [] OTHER -> 10

\* lines 74-83
BaselineThreshold(modality) ==
    CASE modality = "email-formal" -> 10
      [] modality = "email-casual" -> 10
      [] modality = "slack" -> 15
      [] modality = "sms" -> 15
      [] modality = "presentation" -> 5
      [] modality = "conversation" -> 10
      [] OTHER -> 10

KnownDimension(st, dimension) == dimension \in DOMAIN st.dimensions

\* mutant of lines 70-71: the increment left out
SampledNoCount(dim_state, score) ==
    [dim_state EXCEPT !.current = score]

\* lines 70-71
Sampled(dim_state, score) ==
    [dim_state EXCEPT !.current = score, !.samples = @ + 1]

\* mutants of line 85: the None test dropped; > for >=
EstablishesAgain(dim_state, modality) ==
    dim_state.samples >= BaselineThreshold(modality)

EstablishesLate(dim_state, modality) ==
    /\ dim_state.baseline = None
    /\ dim_state.samples > BaselineThreshold(modality)

\* line 85
Establishes(dim_state, modality) ==
    /\ dim_state.baseline = None
    /\ dim_state.samples >= BaselineThreshold(modality)

\* lines 85-90
WithBaseline(dim_state, score, modality) ==
    IF Establishes(dim_state, modality)
    THEN [dim_state EXCEPT !.baseline = Some(score)]
    ELSE dim_state

\* mutants of lines 93-97: rounding to nearest; the improvement > 0 test dropped
PointsEarnedRounded(dim_state, score) ==
    IF dim_state.baseline = None THEN 0
    ELSE LET improvement == score - dim_state.baseline[1]
         IN  IF improvement > 0 THEN (improvement * 2 + 2) \div 4 ELSE 0

PointsEarnedSigned(dim_state, score) ==
    IF dim_state.baseline = None THEN 0
    ELSE (score - dim_state.baseline[1]) \div 2

\* mutant of line 94: the improvement measured from 0
PointsEarnedAbsolute(dim_state, score) ==
    IF dim_state.baseline = None THEN 0
    ELSE IF score > 0 THEN (score * 2) \div 4 ELSE 0

\* lines 93-97: int(improvement * 2), scores in quarter points
PointsEarned(dim_state, score) ==
    IF dim_state.baseline = None THEN 0
    ELSE LET improvement == score - dim_state.baseline[1]
         IN  IF improvement > 0 THEN (improvement * 2) \div 4 ELSE 0

\* mutant of line 64: the update is applied to a fresh document that keeps
\* only the points of the loaded one
UpdateDimensionFresh(st, dimension, score, modality) ==
    LET sampled == Sampled(st.dimensions[dimension], score)
        baseline_established == Establishes(sampled, modality)
        dim_state == WithBaseline(sampled, score, modality)
        points_earned == PointsEarned(dim_state, score)
        new == [DefaultState(st.last_updated) EXCEPT
                          !.dimensions[dimension] = dim_state,
                          !.points = st.points + points_earned]
    IN  [state |-> new,
         result |->
            [kind |-> "report",
             dimension |-> dimension,
             score |-> score,
             baseline |-> dim_state.baseline,
             baseline_established |-> baseline_established,
             samples |-> dim_state.samples,
             points_earned |-> points_earned,
             total_points |-> new.points]]

\* mutant of line 87: the baseline is the score of the sample before
UpdateDimensionPriorBaseline(st, dimension, score, modality) ==
    LET sampled == Sampled(st.dimensions[dimension], score)
        baseline_established == Establishes(sampled, modality)
        dim_state == IF baseline_established
                     THEN [sampled EXCEPT
                              !.baseline = Some(st.dimensions[dimension].current)]
                     ELSE sampled
        points_earned == PointsEarned(dim_state, score)
        new == [st EXCEPT !.dimensions[dimension] = dim_state,
                          !.points = @ + points_earned]
    IN  [state |-> new,
         result |->
            [kind |-> "report",
             dimension |-> dimension,
             score |-> score,
             baseline |-> dim_state.baseline,
             baseline_established |-> baseline_established,
             samples |-> dim_state.samples,
             points_earned |-> points_earned,
             total_points |-> new.points]]

\* mutant of line 109: the report carries the points the call found
UpdateDimensionStaleTotal(st, dimension, score, modality) ==
    LET sampled == Sampled(st.dimensions[dimension], score)
        baseline_established == Establishes(sampled, modality)
        dim_state == WithBaseline(sampled, score, modality)
        points_earned == PointsEarned(dim_state, score)
        new == [st EXCEPT !.dimensions[dimension] = dim_state,
                          !.points = @ + points_earned]
    IN  [state |-> new,
         result |->
            [kind |-> "report",
             dimension |-> dimension,
             score |-> score,
             baseline |-> dim_state.baseline,
             baseline_established |-> baseline_established,
             samples |-> dim_state.samples,
             points_earned |-> points_earned,
             total_points |-> st.points]]

\* lines 69-110: the document as save_state receives it, and the report
UpdateDimension(st, dimension, score, modality) ==
    LET sampled == Sampled(st.dimensions[dimension], score)
        baseline_established == Establishes(sampled, modality)
        dim_state == WithBaseline(sampled, score, modality)
        points_earned == PointsEarned(dim_state, score)
        new == [st EXCEPT !.dimensions[dimension] = dim_state,
                          !.points = @ + points_earned]
    IN  [state |-> new,
         result |->
            [kind |-> "report",
             dimension |-> dimension,
             score |-> score,
             baseline |-> dim_state.baseline,
             baseline_established |-> baseline_established,
             samples |-> dim_state.samples,
             points_earned |-> points_earned,
             total_points |-> new.points]]

\* line 67
UnknownDimension(dimension) == [kind |-> "error", dimension |-> dimension]

\* main, lines 192-194: the message printed before sys.exit(1)
UsageError == [kind |-> "usage"]

\* an uncaught exception ends the invocation with a traceback
Traceback == [kind |-> "traceback"]

NoResult == [kind |-> "none"]
NoArgs == [cmd |-> "none"]
NoState == [kind |-> "none"]

----------------------------------------------------------------------------
(* get_weakest_dimension *)

\* lines 117-124, the loop over the dimensions from position i on
RECURSIVE WeakestFrom(_, _, _, _)
WeakestFrom(st, i, weakest, lowest_score) ==
    IF i > Len(DimensionNames) THEN [weakest |-> weakest, lowest_score |-> lowest_score]
    ELSE LET dim == DimensionNames[i]
             data == st.dimensions[dim]
         IN  IF data.baseline # None /\ data.current < lowest_score
             THEN WeakestFrom(st, i + 1, Some(dim), data.current)
             ELSE WeakestFrom(st, i + 1, weakest, lowest_score)

\* lines 112-129; lowest_score starts at 11, which is 44 quarter points
GetWeakestDimension(st) ==
    LET w == WeakestFrom(st, 1, None, 44)
    IN  [kind |-> "weakest",
         weakest_dimension |-> w.weakest,
         score |-> IF w.weakest # None THEN Some(w.lowest_score) ELSE None]

----------------------------------------------------------------------------
(* archive_to_history *)

\* lines 156-160
HistoryEntry(st, now) ==
    [month |-> Month(now), archived_at |-> now, state_snapshot |-> st]

\* mutant of lines 163-169: the existing log is not read
AppendedToNothing(log, entry) == <<entry>>

\* mutant of line 169: the entry is put in front of the list
AppendedInFront(log, entry) ==
    IF log.kind = "absent" THEN <<entry>> ELSE <<entry>> \o log.doc

\* lines 163-169: the list archive_to_history writes back
Appended(log, entry) ==
    IF log.kind = "absent" THEN <<entry>> ELSE Append(log.doc, entry)

----------------------------------------------------------------------------
(* The commands of main(), each a whole invocation *)

Idle == \A q \in Procs : pc[q] = "idle"

Returns(p, a, r) ==
    /\ args' = [args EXCEPT ![p] = a]
    /\ result' = [result EXCEPT ![p] = r]

UpdateArgs(dimension, score, modality) ==
    [cmd |-> "update", dimension |-> dimension, score |-> score,
     modality |-> modality]

TotalSamples(f) ==
    IF f.kind # "doc" THEN 0
    ELSE LET RECURSIVE Sum(_)
             Sum(i) == IF i = 0 THEN 0
                       ELSE f.doc.dimensions[DimensionNames[i]].samples + Sum(i - 1)
         IN  Sum(Len(DimensionNames))

\* mutant of lines 64-67: the state saved before the dimension is looked up
UpdateSavesFirst(p, dimension, score, modality) ==
    /\ Idle
    /\ ~LoadRaises(file)
    /\ LET st == LoadState(file, clock)
       IN  IF ~KnownDimension(st, dimension)
           THEN /\ Returns(p, UpdateArgs(dimension, Some(score), modality),
                           UnknownDimension(dimension))
                /\ file' = Doc(SaveState(st, clock))
           ELSE LET u == UpdateDimension(st, dimension, score, modality)
                IN  /\ file' = Doc(SaveState(u.state, clock))
                    /\ Returns(p, UpdateArgs(dimension, Some(score), modality),
                               u.result)
    /\ UNCHANGED <<history, clock, pc, state>>

\* main, lines 191-197, with update_dimension and save_state
Update(p, dimension, score, modality) ==
    /\ Idle
    /\ ~LoadRaises(file)
    /\ LET st == LoadState(file, clock)
       IN  IF ~KnownDimension(st, dimension)
           THEN /\ Returns(p, UpdateArgs(dimension, Some(score), modality),
                           UnknownDimension(dimension))
                /\ UNCHANGED file
           ELSE LET u == UpdateDimension(st, dimension, score, modality)
                IN  /\ file' = Doc(SaveState(u.state, clock))
                    /\ Returns(p, UpdateArgs(dimension, Some(score), modality),
                               u.result)
    /\ UNCHANGED <<history, clock, pc, state>>

\* main, lines 192-194: --update without --dimension or without --score
UpdateUsage(p, dimension, score, modality) ==
    /\ Idle
    /\ dimension = "" \/ score = None
    /\ Returns(p, UpdateArgs(dimension, score, modality), UsageError)
    /\ UNCHANGED <<file, history, clock, pc, state>>

\* mutant of lines 187-189: the loaded document is saved
LoadSaves(p) ==
    /\ Idle
    /\ ~LoadRaises(file)
    /\ file' = Doc(SaveState(LoadState(file, clock), clock))
    /\ Returns(p, [cmd |-> "load"],
               [kind |-> "state", doc |-> LoadState(file, clock)])
    /\ UNCHANGED <<history, clock, pc, state>>

\* main, lines 187-189
Load(p) ==
    /\ Idle
    /\ ~LoadRaises(file)
    /\ Returns(p, [cmd |-> "load"],
               [kind |-> "state", doc |-> LoadState(file, clock)])
    /\ UNCHANGED <<file, history, clock, pc, state>>

\* main, lines 199-201
Weakest(p) ==
    /\ Idle
    /\ ~LoadRaises(file)
    /\ Returns(p, [cmd |-> "weakest"], GetWeakestDimension(LoadState(file, clock)))
    /\ UNCHANGED <<file, history, clock, pc, state>>

\* mutant of lines 148-172: the loaded state is saved back
ArchiveSaves(p) ==
    /\ Idle
    /\ ~LoadRaises(file)
    /\ LET month_file == Month(clock)
           entry == HistoryEntry(LoadState(file, clock), clock)
       IN  /\ ~LoadRaises(history[month_file])
           /\ history' = [history EXCEPT
                            ![month_file] = Doc(Appended(history[month_file], entry))]
           /\ file' = Doc(SaveState(LoadState(file, clock), clock))
    /\ Returns(p, [cmd |-> "archive"], [kind |-> "archived"])
    /\ UNCHANGED <<clock, pc, state>>

\* main, lines 203-205, with archive_to_history
Archive(p) ==
    /\ Idle
    /\ ~LoadRaises(file)
    /\ LET month_file == Month(clock)
           entry == HistoryEntry(LoadState(file, clock), clock)
       IN  /\ ~LoadRaises(history[month_file])
           /\ history' = [history EXCEPT
                            ![month_file] = Doc(Appended(history[month_file], entry))]
    /\ Returns(p, [cmd |-> "archive"], [kind |-> "archived"])
    /\ UNCHANGED <<file, clock, pc, state>>

\* main, lines 207-210
Reset(p) ==
    /\ Idle
    /\ file' = Absent
    /\ Returns(p, [cmd |-> "reset"], [kind |-> "reset"])
    /\ UNCHANGED <<history, clock, pc, state>>

\* a command that finds state.json or the month's log unparsable dies in json.load
Unreadable(p, cmd) ==
    /\ Idle
    /\ \/ LoadRaises(file)
       \/ cmd = "archive" /\ LoadRaises(history[Month(clock)])
    /\ Returns(p, [cmd |-> cmd], Traceback)
    /\ UNCHANGED <<file, history, clock, pc, state>>

\* time passes
Tick(max) ==
    /\ clock < max
    /\ clock' = clock + 1
    /\ UNCHANGED <<file, history, pc, args, state, result>>

----------------------------------------------------------------------------
(* Spec: the commands run one after another, archive left out *)

Init ==
    /\ file = Absent
    /\ history = [m \in Months |-> Absent]
    /\ clock = 0
    /\ pc = [p \in Procs |-> "idle"]
    /\ args = [p \in Procs |-> NoArgs]
    /\ state = [p \in Procs |-> NoState]
    /\ result = [p \in Procs |-> NoResult]

UpdateStep ==
    \E dimension \in DimensionArgs, score \in Scores, modality \in ModalityArgs :
        /\ TotalSamples(file) < MaxUpdates
        /\ Update(Shell, dimension, score, modality)

UpdateUsageStep ==
    \E dimension \in {"", "clarity"}, score \in {None, Some(16)} :
        UpdateUsage(Shell, dimension, score, "email-formal")

Next ==
    \/ UpdateStep
    \/ UpdateUsageStep
    \/ Load(Shell)
    \/ Weakest(Shell)
    \/ Reset(Shell)
    \/ Tick(MaxClock)

Spec == Init /\ [][Next]_vars

----------------------------------------------------------------------------
(* SpecFixed: one caller updates one dimension with one modality, from a
   fresh state *)

UpdateFixedStep ==
    \E dimension \in Dimensions, score \in Scores, modality \in Modalities :
        /\ args[Shell].cmd = "update" =>
              /\ dimension = args[Shell].dimension
              /\ modality = args[Shell].modality
        /\ TotalSamples(file) < MaxFixedCalls
        /\ Update(Shell, dimension, score, modality)

NextFixed == UpdateFixedStep

SpecFixed == Init /\ [][NextFixed]_vars

----------------------------------------------------------------------------
(* SpecMixed: two dimensions are updated in any order with any mix of
   modalities, from a fresh state and without a reset *)

\* --modality values SpecMixed passes: thresholds 5, 10 and 15
MixedModalities == {"presentation", "email-formal", "slack"}

UpdateMixedStep ==
    \E dimension \in {"clarity", "presence"}, modality \in MixedModalities :
        /\ file.kind = "doc" =>
              file.doc.dimensions[dimension].samples < MaxMixedCalls
        /\ Update(Shell, dimension, 16, modality)

NextMixed == UpdateMixedStep

SpecMixed == Init /\ [][NextMixed]_vars

----------------------------------------------------------------------------
(* SpecArchive: the commands run one after another, archive among them *)

Entries(h) ==
    LET RECURSIVE Count(_)
        Count(m) == IF m < 0 THEN 0
                    ELSE (IF h[m].kind = "doc" THEN Len(h[m].doc) ELSE 0) + Count(m - 1)
    IN  Count(MaxArchClock \div TicksPerMonth)

ArchiveStep ==
    /\ Entries(history) < MaxArchives
    /\ Archive(Shell)

ArchUpdateStep ==
    \E dimension \in {"clarity", "confidence"}, score \in {16, 26} :
        /\ TotalSamples(file) < MaxArchUpdates
        /\ Update(Shell, dimension, score, "presentation")

NextArchive ==
    \/ ArchiveStep
    \/ ArchUpdateStep
    \/ Load(Shell)
    \/ Reset(Shell)
    \/ Tick(MaxArchClock)

SpecArchive == Init /\ [][NextArchive]_vars

----------------------------------------------------------------------------
(* SpecConc: invocations of the script run side by side.  Each invocation is
   one process that runs one command and exits; its steps are its file
   operations.  save_state and archive_to_history write a file in two
   operations: open(..., 'w') empties the file, json.dump and the close fill
   it.  An invocation can be ended from outside between any two operations. *)

\* the document after k presentation updates of clarity scoring 4.0
RECURSIVE SeedState(_)
SeedState(k) ==
    IF k = 0 THEN DefaultState(0)
    ELSE UpdateDimension(SeedState(k - 1), "clarity", 16, "presentation").state

\* sample counts of clarity the interleaved runs start from, besides no file
SeedSamples == {4, 5}

InitConc ==
    /\ file \in {Absent} \cup {Doc(SaveState(SeedState(k), 0)) : k \in SeedSamples}
    /\ history = [m \in Months |-> Absent]
    /\ clock = 0
    /\ pc = [p \in Procs |-> "idle"]
    /\ args = [p \in Procs |-> NoArgs]
    /\ state = [p \in Procs |-> NoState]
    /\ result = [p \in Procs |-> NoResult]

Exits(p, r) ==
    /\ pc' = [pc EXCEPT ![p] = "done"]
    /\ result' = [result EXCEPT ![p] = r]

\* what the dump of text over a file opened with 'w' leaves: the text, or, when
\* another writer filled the file after this one emptied it and its text was
\* the longer, this text followed by the tail of the other
Dumped(f, text) ==
    IF f.kind = "doc" THEN {Doc(text), Partial} ELSE {Doc(text)}

\* lines 64-98: load_state and the update in memory, up to the call of save_state
BeginUpdate(p, dimension, score, modality) ==
    /\ pc[p] = "idle"
    /\ args' = [args EXCEPT ![p] = UpdateArgs(dimension, Some(score), modality)]
    /\ IF LoadRaises(file)
       THEN Exits(p, Traceback) /\ UNCHANGED state
       ELSE LET st == LoadState(file, clock)
            IN  IF ~KnownDimension(st, dimension)
                THEN Exits(p, UnknownDimension(dimension)) /\ UNCHANGED state
                ELSE LET u == UpdateDimension(st, dimension, score, modality)
                     IN  /\ state' = [state EXCEPT ![p] =
                                        [kind |-> "update", doc |-> u.state,
                                         report |-> u.result]]
                         /\ pc' = [pc EXCEPT ![p] = "save"]
                         /\ UNCHANGED result
    /\ UNCHANGED <<file, history, clock>>

\* lines 48-49: last_updated is set and the state file opened for writing
SaveOpen(p) ==
    /\ pc[p] = "save"
    /\ state' = [state EXCEPT ![p].doc = SaveState(@, clock)]
    /\ file' = Partial
    /\ pc' = [pc EXCEPT ![p] = "dump"]
    /\ UNCHANGED <<history, clock, args, result>>

\* line 50 and lines 102-110: the document is dumped and the report returned
SaveDump(p) ==
    /\ pc[p] = "dump"
    /\ file' \in Dumped(file, state[p].doc)
    /\ Exits(p, state[p].report)
    /\ UNCHANGED <<history, clock, args, state>>

\* lines 150-160: load_state and the history entry
BeginArchive(p) ==
    /\ pc[p] = "idle"
    /\ args' = [args EXCEPT ![p] = [cmd |-> "archive"]]
    /\ IF LoadRaises(file)
       THEN Exits(p, Traceback) /\ UNCHANGED state
       ELSE /\ state' = [state EXCEPT ![p] =
                           [kind |-> "archive", month_file |-> Month(clock),
                            entry |-> HistoryEntry(LoadState(file, clock), clock)]]
            /\ pc' = [pc EXCEPT ![p] = "read"]
            /\ UNCHANGED result
    /\ UNCHANGED <<file, history, clock>>

\* lines 162-169: the month's log is read and the entry appended in memory
ArchiveRead(p) ==
    /\ pc[p] = "read"
    /\ LET log == history[state[p].month_file]
       IN  IF LoadRaises(log)
           THEN Exits(p, Traceback) /\ UNCHANGED state
           ELSE /\ state' = [state EXCEPT ![p] =
                               [kind |-> "archive", month_file |-> @.month_file,
                                history |-> Appended(log, @.entry)]]
                /\ pc' = [pc EXCEPT ![p] = "open"]
                /\ UNCHANGED result
    /\ UNCHANGED <<file, history, clock, args>>

\* line 171: the month's log is opened for writing
ArchiveOpen(p) ==
    /\ pc[p] = "open"
    /\ history' = [history EXCEPT ![state[p].month_file] = Partial]
    /\ pc' = [pc EXCEPT ![p] = "write"]
    /\ UNCHANGED <<file, clock, args, state, result>>

\* line 172 and main, line 205
ArchiveDump(p) ==
    /\ pc[p] = "write"
    /\ \E log \in Dumped(history[state[p].month_file], state[p].history) :
          history' = [history EXCEPT ![state[p].month_file] = log]
    /\ Exits(p, [kind |-> "archived"])
    /\ UNCHANGED <<file, clock, args, state>>

\* main, lines 187-189, beside running writers
LoadBeside(p) ==
    /\ pc[p] = "idle"
    /\ args' = [args EXCEPT ![p] = [cmd |-> "load"]]
    /\ Exits(p, IF LoadRaises(file) THEN Traceback
                ELSE [kind |-> "state", doc |-> LoadState(file, clock)])
    /\ UNCHANGED <<file, history, clock, state>>

\* the invocation is ended between two of its file operations: a signal, a
\* full disk, a power cut
Interrupted(p) ==
    /\ pc[p] \in {"save", "dump", "read", "open", "write"}
    /\ pc' = [pc EXCEPT ![p] = "killed"]
    /\ result' = [result EXCEPT ![p] = [kind |-> "killed"]]
    /\ UNCHANGED <<file, history, clock, args, state>>

NextConc ==
    \E p \in Procs :
        \/ \E dimension \in {"clarity", "confidence"}, score \in {16, 26},
              modality \in {"presentation", "slack"} :
                BeginUpdate(p, dimension, score, modality)
        \/ SaveOpen(p)
        \/ SaveDump(p)
        \/ BeginArchive(p)
        \/ ArchiveRead(p)
        \/ ArchiveOpen(p)
        \/ ArchiveDump(p)
        \/ LoadBeside(p)
        \/ Interrupted(p)

SpecConc == InitConc /\ [][NextConc]_vars

----------------------------------------------------------------------------
(* SpecDocs: the functions of the module called on the documents a practice
   history leaves behind.  Every dimension has gone through one of a few
   histories of updates; load_state, save_state and get_weakest_dimension are
   then called on the document. *)

\* json.dump, line 50: None is written as null, a number as a number, the
\* time stamp as a string, the list as an array, a dict as an object
JsonNull == [t |-> "null"]
JsonNumber(v) == [t |-> "number", v |-> v]
JsonString(v) == [t |-> "string", v |-> v]
JsonArray(v) == [t |-> "array", v |-> v]

\* mutant of line 50: a baseline is written as null whatever it holds
JsonDumpNoBaseline(st) ==
    [level |-> JsonNumber(st.level),
     points |-> JsonNumber(st.points),
     dimensions |->
        [d \in DOMAIN st.dimensions |->
            [current |-> JsonNumber(st.dimensions[d].current),
             baseline |-> JsonNull,
             samples |-> JsonNumber(st.dimensions[d].samples)]],
     active_challenges |-> JsonArray(st.active_challenges),
     last_updated |-> JsonString(st.last_updated)]

JsonDump(st) ==
    [level |-> JsonNumber(st.level),
     points |-> JsonNumber(st.points),
     dimensions |->
        [d \in DOMAIN st.dimensions |->
            [current |-> JsonNumber(st.dimensions[d].current),
             baseline |-> IF st.dimensions[d].baseline = None
                          THEN JsonNull
                          ELSE JsonNumber(st.dimensions[d].baseline[1]),
             samples |-> JsonNumber(st.dimensions[d].samples)]],
     active_challenges |-> JsonArray(st.active_challenges),
     last_updated |-> JsonString(st.last_updated)]

\* json.load, line 44
JsonLoad(text) ==
    [level |-> text.level.v,
     points |-> text.points.v,
     dimensions |->
        [d \in DOMAIN text.dimensions |->
            [current |-> text.dimensions[d].current.v,
             baseline |-> IF text.dimensions[d].baseline.t = "null"
                          THEN None
                          ELSE Some(text.dimensions[d].baseline.v),
             samples |-> text.dimensions[d].samples.v]],
     active_challenges |-> text.active_challenges.v,
     last_updated |-> text.last_updated.v]

\* save_state(load_state()): what a caller of the two functions runs
SaveLoaded(p) ==
    /\ Idle
    /\ ~LoadRaises(file)
    /\ file' = Doc(JsonLoad(JsonDump(SaveState(LoadState(file, clock), clock))))
    /\ Returns(p, [cmd |-> "save"], [kind |-> "saved"])
    /\ UNCHANGED <<history, clock, pc, state>>

\* the histories of one dimension: never practised; one slack sample of -0.25;
\* five presentation samples of 4.0; those and a sixth of 6.5; five
\* presentation samples of 12.0
Practice ==
    [none |-> <<>>,
     once |-> <<[score |-> -1, modality |-> "slack"]>>,
     steady |-> [i \in 1..5 |-> [score |-> 16, modality |-> "presentation"]],
     better |-> [i \in 1..6 |-> [score |-> IF i = 6 THEN 26 ELSE 16,
                                 modality |-> "presentation"]],
     beyond |-> [i \in 1..5 |-> [score |-> 48, modality |-> "presentation"]]]

\* the document after the first n updates of a history of one dimension
RECURSIVE Practised(_, _, _, _)
Practised(st, dimension, updates, n) ==
    IF n = 0 THEN st
    ELSE UpdateDimension(Practised(st, dimension, updates, n - 1), dimension,
                         updates[n].score, updates[n].modality).state

\* the document after the histories of the first i dimensions
RECURSIVE PractisedAll(_, _)
PractisedAll(histories, i) ==
    IF i = 0 THEN DefaultState(0)
    ELSE LET dimension == DimensionNames[i]
             updates == Practice[histories[dimension]]
         IN  Practised(PractisedAll(histories, i - 1), dimension, updates,
                       Len(updates))

PractisedDocs ==
    {PractisedAll(histories, Len(DimensionNames)) :
        histories \in [Dimensions -> DOMAIN Practice]}

InitDocs ==
    /\ file \in {Absent} \cup {Doc(SaveState(st, 0)) : st \in PractisedDocs}
    /\ history = [m \in Months |-> Absent]
    /\ clock = 0
    /\ pc = [p \in Procs |-> "idle"]
    /\ args = [p \in Procs |-> NoArgs]
    /\ state = [p \in Procs |-> NoState]
    /\ result = [p \in Procs |-> NoResult]

NextDocs ==
    \/ SaveLoaded(Shell)
    \/ Weakest(Shell)
    \/ Load(Shell)
    \/ Tick(MaxClock)

SpecDocs == InitDocs /\ [][NextDocs]_vars

----------------------------------------------------------------------------
(* analyze_comm.py: the text analysis.

   A text is a sequence of parts.  A part is a phrase written `times` times,
   the copies a space apart, with `stop` ("", "." or "?") written right after
   the last copy; the parts of a text are a space apart.  The phrases are a
   vocabulary on which every pattern list of the script matches a phrase as a
   whole, once, or not at all, so a count of matches is a sum over the parts.
   Every stop is followed by a space or the end of the text, so every stop is a
   run of [.!?] of its own. *)

MaxParts == 3          \* SpecAnalyze: parts of a text

Phrases ==
    {"report", "um", "sorry", "No", "I can't", "because", "instead", "must",
     "First", "was reviewed", "experience", "risk", "Please"}

\* the phrases of the vocabulary that the patterns of the script match
fillers == {"um"}                                \* line 28
weak_patterns == {"sorry"}                       \* lines 42-44
strong_patterns == {"First", "must"}             \* lines 55-56
passive_indicators == {"was reviewed"}           \* line 68
ethos_patterns == {"experience"}                 \* line 75
pathos_patterns == {"risk"}                      \* line 81
logos_patterns == {"because", "First"}           \* lines 87, 90
direct_no_patterns == {"No", "I can't"}          \* line 102
apology_patterns == {"sorry"}                    \* line 105
justification_patterns == {"because"}            \* line 108
structure_markers == {"First"}                   \* line 129
call_to_action == {"Please"}                     \* line 170
alternatives == {"instead", "I can't"}           \* line 192: I can in I can't

\* the words text.split() finds in one copy of a phrase
PhraseWords(phrase) ==
    CASE phrase = "" -> 0
      [] phrase \in {"I can't", "was reviewed"} -> 2
      [] OTHER -> 1

PartWords(part) == part.times * PhraseWords(part.phrase)

\* the parts the texts are made of: every phrase once, inside or at the end of
\* a sentence; sentences of 21, 26 and 31 words; nine fillers; three
\* justifications; punctuation and white space alone
Parts ==
    {[phrase |-> ph, times |-> 1, stop |-> ""] : ph \in Phrases}
    \cup {[phrase |-> ph, times |-> 1, stop |-> "."] :
             ph \in {"report", "sorry", "I can't", "was reviewed"}}
    \cup {[phrase |-> "report", times |-> n, stop |-> "."] : n \in {21, 26, 31}}
    \cup {[phrase |-> "um", times |-> 9, stop |-> ""],
          [phrase |-> "because", times |-> 3, stop |-> ""]}
    \cup {[phrase |-> "", times |-> 0, stop |-> s] : s \in {"", ".", "?"}}

\* a text written n times over
RECURSIVE Repeated(_, _)
Repeated(text, n) == IF n = 0 THEN <<>> ELSE text \o Repeated(text, n - 1)

Texts ==
    UNION {[1..n -> Parts] : n \in 0..MaxParts}
    \cup {Repeated(<<part>>, 11) : part \in Parts}

\* the matches of a pattern list in a text
RECURSIVE Matches(_, _)
Matches(text, patterns) ==
    IF text = <<>> THEN 0
    ELSE (IF Head(text).phrase \in patterns THEN Head(text).times ELSE 0)
         + Matches(Tail(text), patterns)

\* re.search of a pattern list
Found(text, patterns) == Matches(text, patterns) > 0

\* the matches of \? (line 41): the question marks
RECURSIVE QuestionMarks(_)
QuestionMarks(text) ==
    IF text = <<>> THEN 0
    ELSE (IF Head(text).stop = "?" THEN 1 ELSE 0) + QuestionMarks(Tail(text))

\* lines 13-15: a stop that follows no word is a word of text.split() itself
RECURSIVE CountWords(_)
CountWords(text) ==
    IF text = <<>> THEN 0
    ELSE PartWords(Head(text))
         + (IF Head(text).times = 0 /\ Head(text).stop # "" THEN 1 ELSE 0)
         + CountWords(Tail(text))

\* re.split(r'[.!?]+', text): the segments between the stops, the one before
\* the first stop and the one after the last included, empty or not; `segment`
\* is the segment being read and `done` the segments already closed
RECURSIVE SplitFrom(_, _, _, _)
SplitFrom(text, i, segment, done) ==
    IF i > Len(text) THEN Append(done, segment)
    ELSE IF text[i].stop # ""
         THEN SplitFrom(text, i + 1, <<>>,
                        Append(done, Append(segment, [text[i] EXCEPT !.stop = ""])))
         ELSE SplitFrom(text, i + 1, Append(segment, text[i]), done)

Split(text) == SplitFrom(text, 1, <<>>, <<>>)

\* len(s.split()) of a segment
RECURSIVE SegmentWords(_)
SegmentWords(segment) ==
    IF segment = <<>> THEN 0
    ELSE PartWords(Head(segment)) + SegmentWords(Tail(segment))

\* line 20: the segments that are not empty once stripped
Sentences(text) ==
    LET NotBlank(segment) == SegmentWords(segment) > 0
    IN  SelectSeq(Split(text), NotBlank)

RECURSIVE SumWords(_)
SumWords(segments) ==
    IF segments = <<>> THEN 0
    ELSE SegmentWords(Head(segments)) + SumWords(Tail(segments))

\* lines 17-24: the mean as the fraction words / sentences; 0 without sentences
AverageSentenceLength(text) ==
    LET sentences == Sentences(text)
    IN  IF sentences = <<>> THEN [words |-> 0, sentences |-> 1]
        ELSE [words |-> SumWords(sentences), sentences |-> Len(sentences)]

\* avg_sentence_len > n
LongerThan(avg, n) == avg.words > n * avg.sentences


\* lines 26-36
CountFillerWords(text) == Matches(text, fillers)

\* lines 38-50
DetectWeakLanguage(text) == QuestionMarks(text) + Matches(text, weak_patterns)

\* lines 52-63
DetectStrongMarkers(text) == Matches(text, strong_patterns)

\* lines 65-69
DetectPassiveVoice(text) == Matches(text, passive_indicators)

\* lines 71-97
DetectRhetoricElements(text) ==
    [ethos |-> Matches(text, ethos_patterns),
     pathos |-> Matches(text, pathos_patterns),
     logos |-> Matches(text, logos_patterns)]

\* lines 99-110
DetectBoundarySetting(text) ==
    [direct_no |-> Matches(text, direct_no_patterns),
     apologies |-> Matches(text, apology_patterns),
     justifications |-> Matches(text, justification_patterns)]

Min(a, b) == IF a < b THEN a ELSE b

\* max(0, min(10, score))
Clamp(score) == IF score > 10 THEN 10 ELSE IF score < 0 THEN 0 ELSE score

\* lines 116-120
SentenceLengthPenalty(text) ==
    LET avg_sentence_len == AverageSentenceLength(text)
    IN  IF LongerThan(avg_sentence_len, 25) THEN 2
        ELSE IF LongerThan(avg_sentence_len, 20) THEN 1
        ELSE 0

\* lines 123-126: total_sentences counts every segment of re.split; the
\* quotient exceeds 0.3 exactly when 10 * passive_count > 3 * total_sentences
\* (3/10 is the float 0.3 itself, every other quotient is far from it)
PassivePenalty(text) ==
    LET passive_count == DetectPassiveVoice(text)
        total_sentences == Len(Split(text))
    IN  IF total_sentences > 0 /\ 10 * passive_count > 3 * total_sentences
        THEN 2 ELSE 0

\* lines 129-130
StructurePenalty(text) == IF Found(text, structure_markers) THEN 0 ELSE 1

\* lines 133-134
LongSentences(text) ==
    LET Long(segment) == SegmentWords(segment) > 30
    IN  SelectSeq(Split(text), Long)

\* mutant of lines 129-130: no penalty for a text without a structure marker
ScoreClarityUnmarked(text) ==
    Clamp(10 - SentenceLengthPenalty(text) - PassivePenalty(text)
             - Len(LongSentences(text)))

\* lines 112-137
ScoreClarity(text) ==
    Clamp(10 - SentenceLengthPenalty(text) - PassivePenalty(text)
             - StructurePenalty(text) - Len(LongSentences(text)))

\* mutant of line 144: the cap one too low
ScoreVocalControlCapped(text) ==
    Clamp(10 - Min(CountFillerWords(text), 9))

\* lines 139-146
ScoreVocalControl(text) ==
    Clamp(10 - Min(CountFillerWords(text), 10))

\* mutant of line 158: the score returned as computed
ScorePresenceUnclamped(text) ==
    10 - Min(DetectWeakLanguage(text) * 2, 8) + Min(DetectStrongMarkers(text), 3)

\* lines 148-158
ScorePresence(text) ==
    Clamp(10 - Min(DetectWeakLanguage(text) * 2, 8)
             + Min(DetectStrongMarkers(text), 3))

\* lines 160-173
ScorePersuasion(text) ==
    LET rhetoric == DetectRhetoricElements(text)
    IN  Clamp(Min(rhetoric.ethos, 3) + Min(rhetoric.pathos, 3)
              + Min(rhetoric.logos, 3)
              + (IF Found(text, call_to_action) THEN 1 ELSE 0))

\* mutant of lines 184-185: an apology costs nothing beside a direct no
ScoreBoundarySettingLenient(text) ==
    LET boundary == DetectBoundarySetting(text)
        word_count == CountWords(text)
    IN  Clamp((IF boundary.direct_no > 0 THEN 5 ELSE 0)
              - (IF boundary.apologies > 0 /\ boundary.direct_no = 0 THEN 5 ELSE 0)
              - (IF word_count > 0 /\ boundary.justifications > 2 THEN 2 ELSE 0)
              + (IF Found(text, alternatives) THEN 2 ELSE 0))

\* mutant of line 193: 3 points for an alternative
ScoreBoundarySettingGenerous(text) ==
    LET boundary == DetectBoundarySetting(text)
        word_count == CountWords(text)
    IN  Clamp((IF boundary.direct_no > 0 THEN 5 ELSE 0)
              - (IF boundary.apologies > 0 THEN 5 ELSE 0)
              - (IF word_count > 0 /\ boundary.justifications > 2 THEN 2 ELSE 0)
              + (IF Found(text, alternatives) THEN 3 ELSE 0))

\* lines 175-196
ScoreBoundarySetting(text) ==
    LET boundary == DetectBoundarySetting(text)
        word_count == CountWords(text)
    IN  Clamp((IF boundary.direct_no > 0 THEN 5 ELSE 0)
              - (IF boundary.apologies > 0 THEN 5 ELSE 0)
              - (IF word_count > 0 /\ boundary.justifications > 2 THEN 2 ELSE 0)
              + (IF Found(text, alternatives) THEN 2 ELSE 0))

\* lines 198-229: what analyze returns; avg_sentence_length is the fraction
\* before round(..., 1)
Analysis(text, modality) ==
    [kind |-> "analysis",
     text_length |-> CountWords(text),
     modality |-> modality,
     scores |->
        [clarity |-> ScoreClarity(text),
         vocal_control |-> ScoreVocalControl(text),
         presence |-> ScorePresence(text),
         persuasion |-> ScorePersuasion(text),
         boundary_setting |-> ScoreBoundarySetting(text)],
     diagnostics |->
        [avg_sentence_length |-> AverageSentenceLength(text),
         filler_count |-> CountFillerWords(text),
         weak_language_count |-> DetectWeakLanguage(text),
         strong_markers |-> DetectStrongMarkers(text),
         passive_voice |-> DetectPassiveVoice(text)]]

\* main, lines 231-254: one invocation of analyze_comm.py; it touches no file
Analyze(p, text, modality) ==
    /\ pc[p] = "idle"
    /\ args' = [args EXCEPT ![p] =
                   [cmd |-> "analyze", text |-> text, modality |-> modality]]
    /\ Exits(p, Analysis(text, modality))
    /\ UNCHANGED <<file, history, clock, state>>

\* --modality values SpecAnalyze passes: the default
AnalyzeModalities == {"email-formal"}

\* the one invocation, asked for before a text is drawn
NextAnalyze ==
    /\ pc[Shell] = "idle"
    /\ \E text \in Texts, modality \in AnalyzeModalities :
          Analyze(Shell, text, modality)

(* SpecAnalyze: one invocation of analyze_comm.py on a text *)
SpecAnalyze == Init /\ [][NextAnalyze]_vars

----------------------------------------------------------------------------
(* What the claims read off a state *)

Persisted(f) == IF f.kind = "doc" THEN f.doc ELSE DefaultState(0)
PersistedDim(f, d) == Persisted(f).dimensions[d]
PersistedPoints(f) == Persisted(f).points

\* the step is a successful update: only update writes state.json
SavedStep == file' # file /\ file'.kind = "doc"
\* the step is the reset command
ResetStep == args'[Shell].cmd = "reset" /\ file.kind = "doc" /\ file'.kind = "absent"

----------------------------------------------------------------------------
(* C1 *)

\* C1: over sequential update calls with no reset between them, a dimension's
\* persisted baseline that is a value stays that same value: it is never None
\* again and never another value, whatever the later scores and modalities.
C1_BaselineFixedOnceSet ==
    [][\A d \in Dimensions :
          (PersistedDim(file, d).baseline # None /\ ~ResetStep)
              => PersistedDim(file', d).baseline = PersistedDim(file, d).baseline]_vars

\* a baseline of 4.0 has survived two later updates, the last one scoring 6.5
C1_Witness ==
    /\ file.kind = "doc"
    /\ file.doc.dimensions["clarity"].baseline = Some(16)
    /\ file.doc.dimensions["clarity"].current = 26
    /\ file.doc.dimensions["clarity"].samples = 7

(* C2 *)

ClaimedThreshold(modality) ==
    CASE modality \in {"email-formal", "email-casual", "conversation"} -> 10
      [] modality \in {"slack", "sms"} -> 15
      [] modality = "presentation" -> 5
      [] OTHER -> 10

\* C2: from a fresh state, with one dimension and one modality of threshold N,
\* the k-th update reports samples = k, and baseline_established is true on the
\* N-th call and false on every other call.
C2_EstablishedOnNthCall ==
    result[Shell].kind = "report" =>
        /\ result[Shell].samples = TotalSamples(file)
        /\ result[Shell].baseline_established
              <=> (result[Shell].samples = ClaimedThreshold(args[Shell].modality))

\* the 16th slack call, one after the threshold of 15, reports false
C2_Witness ==
    /\ result[Shell].kind = "report"
    /\ args[Shell].modality = "slack"
    /\ result[Shell].samples = 16
    /\ ~result[Shell].baseline_established
    /\ result[Shell].baseline # None

(* C3 *)

\* C3: every successful update reports points_earned = 0 when the dimension has
\* no baseline after the baseline step or score - baseline <= 0, and
\* floor((score - baseline) * 2) otherwise (on quarter points: the difference
\* halved, rounded down); the persisted points grow by exactly points_earned.
C3_PointsEarned ==
    [][SavedStep =>
          LET r == result'[Shell]
              b == PersistedDim(file', r.dimension).baseline
              claimed == IF b = None \/ r.score - b[1] <= 0 THEN 0
                         ELSE (r.score - b[1]) \div 2
          IN  /\ r.kind = "report"
              /\ r.points_earned = claimed
              /\ PersistedPoints(file') = PersistedPoints(file) + r.points_earned]_vars

\* baseline 4.0 and score 6.5 give 5 points, on top of points earned before
C3_Witness ==
    /\ result[Shell].kind = "report"
    /\ result[Shell].baseline = Some(16)
    /\ result[Shell].score = 26
    /\ result[Shell].points_earned = 5
    /\ result[Shell].total_points > 5
    /\ PersistedPoints(file) = result[Shell].total_points

(* C4 *)

\* C4: over sequential update calls, those answered with an unknown-dimension
\* error included, the persisted points are a non-negative integer that never
\* decreases from one call to the next.
C4_PointsMonotone ==
    [][~ResetStep =>
          /\ PersistedPoints(file') \in Nat
          /\ PersistedPoints(file') >= PersistedPoints(file)]_vars

\* an update scoring below the baseline has left earlier points in place
C4_Witness ==
    /\ result[Shell].kind = "report"
    /\ result[Shell].baseline # None
    /\ result[Shell].score < result[Shell].baseline[1]
    /\ result[Shell].points_earned = 0
    /\ PersistedPoints(file) > 0

(* C5 *)

\* C5: a successful update(dimension, score, modality) sets the dimension's
\* persisted current to score and raises its persisted samples by exactly 1;
\* without a reset no dimension's samples count ever decreases.
C5_CurrentAndSamples ==
    [][/\ SavedStep =>
            LET a == args'[Shell]
            IN  /\ a.cmd = "update"
                /\ PersistedDim(file', a.dimension).current = a.score[1]
                /\ PersistedDim(file', a.dimension).samples
                      = PersistedDim(file, a.dimension).samples + 1
       /\ ~ResetStep =>
            \A d \in Dimensions :
                PersistedDim(file', d).samples >= PersistedDim(file, d).samples]_vars

\* the third update of presence, scoring 6.5, after updates of clarity
C5_Witness ==
    /\ args[Shell].cmd = "update"
    /\ args[Shell].dimension = "presence"
    /\ result[Shell].kind = "report"
    /\ PersistedDim(file, "presence").current = 26
    /\ PersistedDim(file, "presence").samples = 3
    /\ PersistedDim(file, "clarity").samples = 2

(* C6 *)

\* C6: update with a dimension that is not one of the five names returns an
\* error result and leaves the persisted state document as it was: same
\* content, last_updated included, and no document made where none was.
C6_UnknownDimension ==
    [][LET a == args'[Shell]
       IN  (a.cmd = "update" /\ a.score # None /\ a.dimension \notin Dimensions \cup {""})
              => /\ result'[Shell].kind = "error"
                 /\ file' = file
                 /\ history' = history]_vars

\* the error came back while a document saved at an earlier time exists
C6_Witness ==
    /\ result[Shell].kind = "error"
    /\ args[Shell].dimension = "confidence"
    /\ file.kind = "doc"
    /\ file.doc.last_updated < clock

(* C9 *)

\* the step is an archive command: only archive writes a history log
ArchivedStep == history' # history

\* the month of the newest log, and the entry written last
LatestMonth(h) ==
    CHOOSE m \in Months :
        /\ h[m].kind = "doc"
        /\ \A m2 \in Months : m2 > m => h[m2].kind # "doc"
LastEntry(h) == LET log == h[LatestMonth(h)].doc IN log[Len(log)]

SameButLastUpdated(s1, s2) ==
    [s1 EXCEPT !.last_updated = 0] = [s2 EXCEPT !.last_updated = 0]

\* C9 as claimed: the second of two archive calls in sequence leaves the month's
\* log ending in the two calls' entries, with identical state_snapshot values,
\* for every live state, a missing state document included.
C9_Original ==
    [][(args[Shell].cmd = "archive" /\ ArchivedStep) =>
          LET log == history'[Month(clock)].doc
              n == Len(log)
          IN  /\ n >= 2
              /\ log[n - 1] = LastEntry(history)
              /\ log[n].state_snapshot = log[n - 1].state_snapshot]_vars

\* C9 amended: when the second of two archive calls in sequence falls in the
\* same month as the first, the month's log ends in the two calls' entries and
\* the two state_snapshot values agree in every field but last_updated; they
\* are identical when a state document is persisted.
C9_TwoArchives ==
    [][(args[Shell].cmd = "archive" /\ ArchivedStep
            /\ LastEntry(history).month = Month(clock)) =>
          LET old == history[Month(clock)].doc
              log == history'[Month(clock)].doc
              n == Len(log)
          IN  /\ n = Len(old) + 1
              /\ n >= 2
              /\ log[n - 1] = LastEntry(history)
              /\ SameButLastUpdated(log[n].state_snapshot, log[n - 1].state_snapshot)
              /\ file.kind = "doc"
                    => log[n].state_snapshot = log[n - 1].state_snapshot]_vars

\* two archive calls in sequence, at different times of one month, of a
\* persisted document with a sample in it
C9_Witness ==
    /\ args[Shell].cmd = "archive"
    /\ file.kind = "doc"
    /\ history[0].kind = "doc"
    /\ Len(history[0].doc) = 2
    /\ history[0].doc[1].archived_at < history[0].doc[2].archived_at
    /\ history[0].doc[1].state_snapshot = file.doc
    /\ history[0].doc[2].state_snapshot = file.doc

(* C10 *)

\* C10: archive never changes the live state document: after an archive call
\* state.json holds what it held before, last_updated included, and is still
\* missing if it was missing.
C10_ArchiveKeepsState ==
    [][ArchivedStep => file' = file]_vars

\* archived twice, once with no document and once at a time later than the
\* document's last_updated
C10_Witness ==
    /\ args[Shell].cmd = "archive"
    /\ file.kind = "doc"
    /\ file.doc.last_updated < clock
    /\ history[0].kind = "doc"
    /\ Len(history[0].doc) = 2
    /\ history[0].doc[1].state_snapshot.dimensions["clarity"].samples = 0
    /\ history[0].doc[2].state_snapshot = file.doc

(* C7 *)

Max(a, b) == IF a >= b THEN a ELSE b

\* p and q are the two update invocations that returned a report, both for one
\* dimension, and no third invocation has written or is writing the state file
TwoUpdatesReturned(p, q) ==
    /\ p # q
    /\ pc[p] = "done" /\ result[p].kind = "report"
    /\ pc[q] = "done" /\ result[q].kind = "report"
    /\ result[p].dimension = result[q].dimension
    /\ \A r \in Procs \ {p, q} :
          result[r].kind # "report" /\ pc[r] \notin {"save", "dump"}

\* sample counts of dimension d the interleaved runs start from
StartSamples(d) == {0} \cup (IF d = "clarity" THEN SeedSamples ELSE {})

\* C7: when two interleaved update invocations for one dimension have both
\* returned a success report, the persisted samples count is the larger of the
\* two reported counts; it is 1 above the count before the calls, not 2, exactly
\* when the two reports carry the same count, and then the persisted points are
\* those of one report: the other call's update is lost.
C7_LostUpdate ==
    \A p, q \in Procs :
        (TwoUpdatesReturned(p, q) /\ file.kind = "doc") =>
            LET d == result[p].dimension
                n == file.doc.dimensions[d].samples
            IN  /\ n = Max(result[p].samples, result[q].samples)
                /\ \E n0 \in StartSamples(d) :
                      /\ n \in {n0 + 1, n0 + 2}
                      /\ n = n0 + 1 <=> result[p].samples = result[q].samples
                /\ result[p].samples = result[q].samples
                      => file.doc.points \in {result[p].total_points, result[q].total_points}

\* both calls scored 6.5 on a baseline of 4.0 after 5 samples and reported 5
\* points each; the document holds 6 samples and 5 points
C7_Witness ==
    /\ TwoUpdatesReturned(1, 2)
    /\ file.kind = "doc"
    /\ result[1].samples = 6 /\ result[2].samples = 6
    /\ result[1].points_earned = 5 /\ result[2].points_earned = 5
    /\ file.doc.dimensions["clarity"].samples = 6
    /\ file.doc.points = 5

(* C8 *)

\* no invocation stands between two of its file operations
Quiescent == \A p \in Procs : pc[p] \in {"idle", "done", "killed"}

\* C8 as claimed: wherever an update fails or is interrupted, save included, the
\* state file holds a complete document (the one before or the one after the
\* update), never an empty or partly written one.
C8_UpdateAllOrNothing ==
    Quiescent => file.kind # "partial"

(* C11 *)

\* C11: save_state(load_state()) on a persisted document leaves every
\* persisted field as it was, last_updated excepted.
C11_SaveLoadRoundTrip ==
    [][(args'[Shell].cmd = "save" /\ file.kind = "doc") =>
          /\ file'.kind = "doc"
          /\ SameButLastUpdated(file'.doc, file.doc)]_vars

\* a document with a baseline, a missing baseline, samples and points was saved
\* back one tick after it was written
C11_Witness ==
    /\ args[Shell].cmd = "save"
    /\ file.kind = "doc"
    /\ file.doc.last_updated = 1
    /\ file.doc.points = 5
    /\ file.doc.dimensions["clarity"].baseline = Some(16)
    /\ file.doc.dimensions["presence"].baseline = None
    /\ file.doc.dimensions["presence"].samples = 1

(* C12 *)

\* C12 as claimed: get_weakest_dimension returns, among the dimensions with a
\* baseline, the one with the lowest current score, the first in the fixed
\* order on a tie; it returns no dimension exactly when no dimension has a
\* baseline, and never one without a baseline.
C12_WeakestDimension ==
    (args[Shell].cmd = "weakest" /\ result[Shell].kind = "weakest") =>
        LET dims == Persisted(file).dimensions
            based == {i \in 1..Len(DimensionNames) :
                         dims[DimensionNames[i]].baseline # None}
            r == result[Shell]
        IN  IF based = {}
            THEN r.weakest_dimension = None /\ r.score = None
            ELSE \E i \in based :
                    /\ r.weakest_dimension = Some(DimensionNames[i])
                    /\ r.score = Some(dims[DimensionNames[i]].current)
                    /\ \A j \in based :
                          /\ dims[DimensionNames[j]].current
                                >= dims[DimensionNames[i]].current
                          /\ j < i => dims[DimensionNames[j]].current
                                         > dims[DimensionNames[i]].current

(* C13 *)

\* C13 as claimed: in every state the commands reach, every current score and
\* every baseline that is set lies in [0, 10], which is 0..40 quarter points.
C13_ScoresInRange ==
    \A d \in Dimensions :
        LET dim_state == PersistedDim(file, d)
        IN  /\ dim_state.current \in 0..40
            /\ dim_state.baseline # None => dim_state.baseline[1] \in 0..40

(* C14 *)

\* the default document as the claim spells it out
ClaimedDefault(doc) ==
    /\ DOMAIN doc.dimensions =
          {"clarity", "vocal_control", "presence", "persuasion", "boundary_setting"}
    /\ \A d \in DOMAIN doc.dimensions :
          /\ doc.dimensions[d].current = 0
          /\ doc.dimensions[d].baseline = None
          /\ doc.dimensions[d].samples = 0
    /\ doc.points = 0
    /\ doc.level = 1
    /\ doc.active_challenges = <<>>

\* C14: with no persisted document, before the first save or after a reset,
\* load returns the default document; reset leaves no persisted document.
C14_LoadWithoutDocument ==
    /\ (args[Shell].cmd = "load" /\ file.kind = "absent") =>
          /\ result[Shell].kind = "state"
          /\ ClaimedDefault(result[Shell].doc)
    /\ args[Shell].cmd = "reset" => file.kind = "absent"

\* a document with two samples of clarity was archived and then reset, and load
\* returned the default document
C14_Witness ==
    /\ args[Shell].cmd = "load"
    /\ file.kind = "absent"
    /\ ClaimedDefault(result[Shell].doc)
    /\ \E m \in Months :
          /\ history[m].kind = "doc"
          /\ \E i \in 1..Len(history[m].doc) :
                history[m].doc[i].state_snapshot.dimensions["clarity"].samples = 2

(* C15 *)

\* the invocation of analyze_comm.py has returned
Analyzed == pc[Shell] = "done" /\ result[Shell].kind = "analysis"

\* C15: for every text, the empty one and those of punctuation or white space
\* alone included, each of the five scores of analyze lies in [0, 10].
C15_ScoresWithinBounds ==
    Analyzed => \A d \in Dimensions : result[Shell].scores[d] \in 0..10

\* three strong markers and no weak language: presence is 13 before the clamp
C15_Witness ==
    /\ Analyzed
    /\ result[Shell].diagnostics.strong_markers = 3
    /\ result[Shell].diagnostics.weak_language_count = 0
    /\ result[Shell].scores.presence = 10

(* C16 *)

\* a text without a sentence in which every count is zero
Degenerate(r) ==
    /\ r.diagnostics.avg_sentence_length.words = 0
    /\ r.diagnostics.filler_count = 0
    /\ r.diagnostics.weak_language_count = 0
    /\ r.diagnostics.strong_markers = 0
    /\ r.diagnostics.passive_voice = 0

\* C16 as claimed: on such a text every scoring function returns its start
\* value: clarity 10, vocal_control 10, presence 10, persuasion 0,
\* boundary_setting 0.
C16_Original ==
    (Analyzed /\ Degenerate(result[Shell])) =>
        result[Shell].scores =
            [clarity |-> 10, vocal_control |-> 10, presence |-> 10,
             persuasion |-> 0, boundary_setting |-> 0]

\* C16: on such a text no scoring function raises; vocal_control and presence
\* return 10, persuasion and boundary_setting 0, and clarity returns 9, its
\* start value less the point a text without a structure marker loses.
C16_StartValues ==
    (pc[Shell] = "done" /\ Degenerate(result[Shell])) =>
        /\ result[Shell].kind = "analysis"
        /\ result[Shell].scores =
              [clarity |-> 9, vocal_control |-> 10, presence |-> 10,
               persuasion |-> 0, boundary_setting |-> 0]

\* a text of one full stop was scored
C16_Witness ==
    /\ Analyzed
    /\ Degenerate(result[Shell])
    /\ result[Shell].text_length = 1
    /\ result[Shell].scores.clarity = 9

(* C17 *)

\* texts of 0 to 12 fillers
FillerTexts == {<<[phrase |-> "um", times |-> n, stop |-> ""]>> : n \in 0..12}

\* C17: score_vocal_control is 10 - min(filler_count, 10): a text with more
\* fillers never scores higher than one with fewer, and a text with 10 fillers
\* or more scores exactly 0.
C17_VocalControl ==
    Analyzed =>
        LET filler_count == result[Shell].diagnostics.filler_count
            score == result[Shell].scores.vocal_control
        IN  /\ score = 10 - Min(filler_count, 10)
            /\ filler_count >= 10 => score = 0
            /\ \A other \in FillerTexts :
                  /\ CountFillerWords(other) >= filler_count
                        => ScoreVocalControl(other) <= score
                  /\ CountFillerWords(other) <= filler_count
                        => ScoreVocalControl(other) >= score

\* a text of exactly 10 fillers scored 0
C17_Witness ==
    /\ Analyzed
    /\ result[Shell].diagnostics.filler_count = 10
    /\ result[Shell].scores.vocal_control = 0

(* C18 *)

Sorry == [phrase |-> "sorry", times |-> 1, stop |-> ""]

\* the text with the word sorry put in after its first i parts
WithSorry(text, i) ==
    SubSeq(text, 1, i) \o <<Sorry>> \o SubSeq(text, i + 1, Len(text))

\* C18: a text with a direct no, no apology and no over-justification penalty
\* scores at least 5 on boundary_setting, and with the word sorry added
\* anywhere it scores exactly 5 less.
C18_SorryCostsFive ==
    Analyzed =>
        LET text == args[Shell].text
            boundary == DetectBoundarySetting(text)
            score == result[Shell].scores.boundary_setting
        IN  (boundary.direct_no > 0 /\ boundary.apologies = 0
                /\ boundary.justifications <= 2) =>
                /\ score >= 5
                /\ \A i \in 0..Len(text) :
                      ScoreBoundarySetting(WithSorry(text, i)) = score - 5

\* "No I can't. report." scored 7, and 2 with sorry at its end
C18_Witness ==
    /\ Analyzed
    /\ args[Shell].text =
          <<[phrase |-> "No", times |-> 1, stop |-> ""],
            [phrase |-> "I can't", times |-> 1, stop |-> "."],
            [phrase |-> "report", times |-> 1, stop |-> "."]>>
    /\ result[Shell].scores.boundary_setting = 7
    /\ ScoreBoundarySetting(WithSorry(args[Shell].text, 3)) = 2

(* C19 *)

\* C19 as claimed: score_clarity takes 2 points for passive voice exactly when
\* the text has a sentence and passive_voice_count over the number of
\* sentences exceeds 0.3, the sentences being those of average_sentence_length
\* (segments trimmed, empty ones dropped).
C19_PassivePenalty ==
    Analyzed =>
        LET text == args[Shell].text
            sentences == Len(Sentences(text))
            passive_count == result[Shell].diagnostics.passive_voice
            claimed == IF sentences >= 1 /\ 10 * passive_count > 3 * sentences
                       THEN 2 ELSE 0
        IN  result[Shell].scores.clarity =
                Clamp(10 - SentenceLengthPenalty(text) - claimed
                         - StructurePenalty(text) - Len(LongSentences(text)))

(* C20 *)

\* C20: a successful update changes, besides points and last_updated, only the
\* updated dimension; level, active_challenges and the other four dimensions
\* stay as they were.
C20_UpdateFrame ==
    [][SavedStep =>
          LET old == Persisted(file)
              new == file'.doc
          IN  /\ new.level = old.level
              /\ new.active_challenges = old.active_challenges
              /\ DOMAIN new.dimensions = DOMAIN old.dimensions
              /\ \A d \in DOMAIN old.dimensions \ {args'[Shell].dimension} :
                    new.dimensions[d] = old.dimensions[d]]_vars

\* presence was updated on a document that held a baseline and points for
\* clarity, and clarity is as it was
C20_Witness ==
    /\ args[Shell].cmd = "update"
    /\ args[Shell].dimension = "presence"
    /\ result[Shell].kind = "report"
    /\ file.kind = "doc"
    /\ file.doc.dimensions["presence"].samples = 1
    /\ file.doc.dimensions["clarity"] =
          [current |-> 26, baseline |-> Some(16), samples |-> 6]
    /\ file.doc.points = 5

(* C21 *)

\* C21: a history log changes only by an archive call, which leaves the log of
\* the month of the call as it was (empty if it did not exist) with one entry
\* added at its end; update, load and reset change no history log.
C21_HistoryAppendOnly ==
    [][/\ \A m \in Months :
             history'[m] # history[m] =>
                /\ args'[Shell].cmd = "archive"
                /\ m = Month(clock)
                /\ history'[m].kind = "doc"
                /\ LET before == IF history[m].kind = "doc"
                                 THEN history[m].doc ELSE <<>>
                       after == history'[m].doc
                   IN  /\ Len(after) = Len(before) + 1
                       /\ SubSeq(after, 1, Len(before)) = before
                       /\ after[Len(after)].archived_at = clock
       /\ args'[Shell].cmd \in {"update", "load", "reset"} => history' = history
      ]_vars

\* a document was archived, updated and archived again in the same month, then
\* reset; the log holds the two snapshots in the order of the calls
C21_Witness ==
    /\ args[Shell].cmd = "reset"
    /\ history[0].kind = "doc"
    /\ Len(history[0].doc) = 2
    /\ history[0].doc[1].state_snapshot.dimensions["clarity"].samples = 1
    /\ history[0].doc[2].state_snapshot.dimensions["clarity"].samples = 2

(* C22 *)

C23_ReportAgreesWithDocument ==
    [][SavedStep =>
          LET report == result'[Shell]
              dim_state == file'.doc.dimensions[args'[Shell].dimension]
          IN  /\ report.kind = "report"
              /\ report.samples = dim_state.samples
              /\ report.baseline = dim_state.baseline
              /\ report.total_points = file'.doc.points
              /\ report.total_points = PersistedPoints(file) + report.points_earned
      ]_vars

\* the second improvement on a baseline of 4.0: 5 points earned, 10 in total
C23_Witness ==
    /\ result[Shell].kind = "report"
    /\ result[Shell].points_earned = 5
    /\ result[Shell].total_points = 10
    /\ file.kind = "doc"
    /\ file.doc.points = 10
    /\ file.doc.dimensions["clarity"].samples = 7

(* C24 *)

\* C24: after any sequence of updates from the default state, for every
\* dimension a baseline that is set implies samples >= 5, and samples >= 15
\* implies that the baseline is set.
C24_BaselineAndSamples ==
    \A d \in Dimensions :
        LET dim_state == PersistedDim(file, d)
        IN  /\ dim_state.baseline # None => dim_state.samples >= 5
            /\ dim_state.samples >= 15 => dim_state.baseline # None

\* clarity got its baseline with its 15th sample, presence with its 5th
C24_Witness ==
    /\ result[Shell].kind = "report"
    /\ result[Shell].dimension = "clarity"
    /\ result[Shell].baseline_established
    /\ file.kind = "doc"
    /\ file.doc.dimensions["clarity"].samples = 15
    /\ file.doc.dimensions["presence"].samples = 5
    /\ file.doc.dimensions["presence"].baseline # None

(* C25 *)

\* C25: samples are counted per dimension whatever the modality of a call, and
\* a dimension without a baseline gets one on the call whose samples count,
\* the call included, is at least the threshold of that call's own modality.
C25_ThresholdOfTheCall ==
    [][SavedStep =>
          LET d == args'[Shell].dimension
              before == PersistedDim(file, d)
              after == file'.doc.dimensions[d]
          IN  /\ after.samples = before.samples + 1
              /\ before.baseline = None =>
                    (after.baseline # None
                        <=> after.samples >= ClaimedThreshold(args'[Shell].modality))
      ]_vars

\* a presentation call established the baseline with the 8th sample: the calls
\* for samples 5, 6 and 7 had modalities of a higher threshold
C25_Witness ==
    /\ result[Shell].kind = "report"
    /\ args[Shell].modality = "presentation"
    /\ result[Shell].baseline_established
    /\ result[Shell].samples = 8

(* C26 *)

\* C26: the update that establishes a baseline reports points_earned = 0 and
\* leaves points as they were, whatever its score; a call earns points only
\* when the dimension had a baseline before it and its score is above that
\* baseline by at least 0.5, which is 2 quarter points.
C26_NoPointsOnEstablishing ==
    [][SavedStep =>
          LET report == result'[Shell]
              before == PersistedDim(file, args'[Shell].dimension)
          IN  /\ report.baseline_established =>
                    /\ report.points_earned = 0
                    /\ file'.doc.points = PersistedPoints(file)
              /\ report.points_earned > 0 =>
                    /\ before.baseline # None
                    /\ report.score - before.baseline[1] >= 2]_vars

\* the establishing call scored 6.5 on samples of which none earned a point,
\* and earned none itself
C26_Witness ==
    /\ result[Shell].kind = "report"
    /\ result[Shell].baseline_established
    /\ result[Shell].score = 26
    /\ result[Shell].points_earned = 0
    /\ result[Shell].samples = 10
    /\ file.kind = "doc"
    /\ file.doc.points = 0

(* C27 *)

\* invocation q has returned the report of an update of dimension d
Reported(q, d) ==
    /\ pc[q] = "done"
    /\ result[q].kind = "report"
    /\ result[q].dimension = d

\* invocation q has returned from the call that established baseline b of d
Established(q, d, b) ==
    /\ Reported(q, d)
    /\ result[q].baseline_established
    /\ result[q].baseline = b

\* C27: when the save of an update replaces a persisted baseline by a different
\* one, two different calls have established the two baselines, the saving
\* call or one that has returned the one and a call that has returned the
\* other; and a save that lowers the persisted samples or points comes after
\* another call has returned the higher value.  Both happen: the witness is a
\* state they both lead to.
C27_RacingSaves ==
    [][\A p \in Procs :
          (pc[p] = "save" /\ pc'[p] = "dump" /\ file.kind = "doc") =>
             LET d == args[p].dimension
                 old == file.doc.dimensions[d]
                 new == state'[p].doc.dimensions[d]
             IN  /\ (old.baseline # None /\ new.baseline # None
                        /\ new.baseline # old.baseline) =>
                       \E q1 \in Procs \ {p} :
                          /\ Established(q1, d, old.baseline)
                          /\ \/ /\ state[p].report.baseline_established
                                /\ new.baseline = args[p].score
                             \/ \E q2 \in Procs \ {p, q1} :
                                   Established(q2, d, new.baseline)
                 /\ new.samples < old.samples =>
                       \E q \in Procs \ {p} :
                          Reported(q, d) /\ result[q].samples = old.samples
                 /\ state'[p].doc.points < file.doc.points =>
                       \E q \in Procs \ {p} :
                          Reported(q, d) /\ result[q].total_points = file.doc.points
      ]_vars

\* from 4 samples: invocation 2 established the baseline 4.0 with sample 5,
\* invocation 3 then earned 5 points with sample 6, and invocation 1, which
\* had loaded the 4 samples, saved last: the document holds 5 samples, the
\* baseline 6.5 and no points
C27_Witness ==
    /\ \A p \in Procs : Reported(p, "clarity")
    /\ result[2].baseline_established /\ result[2].baseline = Some(16)
    /\ result[3].samples = 6 /\ result[3].baseline = Some(16)
    /\ result[3].total_points = 5
    /\ result[1].baseline_established /\ result[1].baseline = Some(26)
    /\ file.kind = "doc"
    /\ file.doc.dimensions["clarity"].samples = 5
    /\ file.doc.dimensions["clarity"].baseline = Some(26)
    /\ file.doc.points = 0

(* C28 *)

\* invocation q has returned from an archive call
Archived(q) == pc[q] = "done" /\ result[q].kind = "archived"

\* C28: an archive call reads the month's log and holds that log with its own
\* entry at the end; when it then opens a log that is as long as the list it
\* holds or longer, another archive call has returned in between, and its
\* dump puts the list it holds in place of that log.  Two calls so complete
\* with one entry in the log: the witness.
C28_RacingArchives ==
    [][\A p \in Procs :
          LET log == history[state[p].month_file]
          IN  /\ (pc[p] = "read" /\ pc'[p] = "open") =>
                    /\ log.kind = "doc" =>
                          state'[p].history = log.doc \o <<state[p].entry>>
                    /\ log.kind = "absent" =>
                          state'[p].history = <<state[p].entry>>
              /\ (pc[p] = "open" /\ pc'[p] = "write" /\ log.kind = "doc"
                     /\ Len(state[p].history) <= Len(log.doc)) =>
                    \E q \in Procs \ {p} : Archived(q)
              /\ (pc[p] = "write" /\ pc'[p] = "done"
                     /\ history'[state[p].month_file].kind = "doc") =>
                    history'[state[p].month_file].doc = state[p].history]_vars

\* invocations 1 and 2 have both archived and the log holds one entry
C28_Witness ==
    /\ Archived(1)
    /\ Archived(2)
    /\ pc[3] = "idle"
    /\ history[0].kind = "doc"
    /\ Len(history[0].doc) = 1

(* C29 *)

\* C29: load and get_weakest_dimension leave the state document as it is, a
\* missing one missing, and the document comes into existence only by a
\* successful update.
C29_ReadsDoNotWrite ==
    [][/\ args'[Shell].cmd \in {"load", "weakest"} => file' = file
       /\ (file.kind = "absent" /\ file'.kind = "doc") =>
             /\ args'[Shell].cmd = "update"
             /\ result'[Shell].kind = "report"]_vars

\* --weakest named clarity one tick after the document was last saved, and
\* the document still carries the time of that save
C29_Witness ==
    /\ args[Shell].cmd = "weakest"
    /\ result[Shell].kind = "weakest"
    /\ result[Shell].weakest_dimension = Some("clarity")
    /\ file.kind = "doc"
    /\ file.doc.last_updated = 0
    /\ clock = 1

(* C30 *)

\* C30: for every text the boundary_setting score is one of 0, 2, 3, 5 and 7.
C30_BoundaryScores ==
    Analyzed => result[Shell].scores.boundary_setting \in {0, 2, 3, 5, 7}

\* a direct no with three justifications scored 3
C30_Witness ==
    /\ Analyzed
    /\ result[Shell].scores.boundary_setting = 3
    /\ DetectBoundarySetting(args[Shell].text).justifications = 3

====
